---- MODULE Spec2Model ----
(***************************************************************************)
(* Workflow orchestration engine of code-forge: the Workflow Manager's     *)
(* task lifecycle and developer/reviewer feedback loop, and the Retry      *)
(* Orchestrator that wraps one model call with bounded retries.            *)
(*                                                                         *)
(* The code is single-threaded and asynchronous.  A handler is modelled    *)
(* as one action per run of statements between two suspension points       *)
(* (await of a remote call or of a timer); pc names the statement the      *)
(* handler is at, inflight the remote calls that have been issued and have *)
(* not settled yet.                                                        *)
(***************************************************************************)
EXTENDS Integers, Sequences, FiniteSets, TLC

(***************************************************************************)
(* Bounds of the model.                                                    *)
(***************************************************************************)
\* public calls made on one WorkflowManager; orchestrateWorkflow, which is
\* startArchitecture followed by the loops of all tasks, counts as two
MaxTopCalls == 3
\* number of architecture designs requested from one WorkflowManager
MaxArchCalls == 2
\* largest maxRetries a caller configures on an Orchestrator
MaxRetriesCfg == 4
\* tasks a caller hands to one WorkflowTokenTracker
MaxTrackedTasks == 2
\* recordDevelopment / recordReview calls made on one WorkflowTokenTracker
MaxRecords == 3
\* responses passed to one buildConsensus call
MaxResponses == 2
\* findings held by the responses of one buildConsensus call, together
MaxFindings == 3

(***************************************************************************)
(* Program constants.                                                      *)
(***************************************************************************)
\* createTasksFromArchitecture: maxIterations: 3
DefaultMaxIterations == 3
\* parseArchitectureFromResponse: componentBreakdown has two components
NumComponents == 2
\* Orchestrator constructor: config?.maxRetries || 3
DefaultMaxRetries == 3
\* Orchestrator constructor: config?.backoffMs || 1000
DefaultBackoffMs == 1000

(***************************************************************************)
(* Error values.  A message is a sequence of characters.                   *)
(***************************************************************************)
MsgRateLimit == <<"R", "a", "t", "e", " ", "l", "i", "m", "i", "t">>
MsgTimeout == <<"T", "I", "M", "E", "O", "U", "T">>
Msg429 == <<"(", "4", "2", "9", ")">>
MsgAuth == <<"(", "4", "0", "1", ")">>
MsgRate == <<"r", "a", "t", "e">>

Messages == {MsgRateLimit, MsgTimeout, Msg429, MsgAuth, MsgRate}

ErrorClasses == {"ModelError", "ToolError", "Error"}

Errors == [cls : ErrorClasses, msg : Messages]

NoError == [cls |-> "none", msg |-> <<>>]

\* String.prototype.toLowerCase on one character
LowerChar(c) ==
    CASE c = "R" -> "r"
      [] c = "T" -> "t"
      [] c = "I" -> "i"
      [] c = "M" -> "m"
      [] c = "E" -> "e"
      [] c = "O" -> "o"
      [] c = "U" -> "u"
      [] OTHER -> c

\* String.prototype.toLowerCase
ToLowerCase(s) == [i \in 1..Len(s) |-> LowerChar(s[i])]

\* String.prototype.includes
Includes(s, sub) ==
    \E i \in 0..(Len(s) - Len(sub)) :
        \A j \in 1..Len(sub) : s[i + j] = sub[j]

MarkerRateLimit == <<"r", "a", "t", "e", " ", "l", "i", "m", "i", "t">>
MarkerTimeout == <<"t", "i", "m", "e", "o", "u", "t">>
Marker429 == <<"4", "2", "9">>

\* whether a message carries one of the markers isRetryableError looks for
HasRetryMarker(msg) ==
    LET message == ToLowerCase(msg)
    IN  Includes(message, MarkerRateLimit)
        \/ Includes(message, MarkerTimeout)
        \/ Includes(message, Marker429)

isRetryableErrorAnyModelError(error) == error.cls = "ModelError"

\* Orchestrator.isRetryableError
isRetryableError(error) ==
    IF error.cls = "ModelError"
        THEN LET message == ToLowerCase(error.msg)
             IN  Includes(message, MarkerRateLimit)
                 \/ Includes(message, MarkerTimeout)
                 \/ Includes(message, Marker429)
        ELSE FALSE

(***************************************************************************)
(* State.                                                                  *)
(***************************************************************************)
\* Retry Orchestrator state
VARIABLES
    r_maxRetries,   \* Orchestrator.maxRetries
    r_backoffMs,    \* Orchestrator.backoffMs
    r_pc,           \* "idle", "calling", "sleeping", "returned", "threw"
    r_attempt,      \* loop variable attempt of executeWithRetry
    r_lastError,    \* local lastError of executeWithRetry
    r_thrown,       \* the error executeWithRetry rejected with
    r_calls,        \* model.analyze calls issued by the current execution
    r_errors,       \* errors model.analyze threw in the current execution
    r_delays,       \* delays passed to sleep by the current execution
    a_pc,           \* executeAdvanced: "idle", "awaiting", "returned", "threw"
    a_models,       \* executeAdvanced: the model each role's agent is bound to
    a_pending,      \* executeAdvanced: performAnalysis calls not settled yet
    a_results,      \* executeAdvanced: the response of each call that resolved
    a_order,        \* executeAdvanced: the roles in the order their calls settled
    a_builderCalls  \* executeAdvanced: calls of ConsensusBuilder.buildConsensus

advancedVars == <<a_pc, a_models, a_pending, a_results, a_order, a_builderCalls>>

retryVars == <<r_maxRetries, r_backoffMs, r_pc, r_attempt, r_lastError,
               r_thrown, r_calls, r_errors, r_delays, advancedVars>>

\* Workflow Manager state
VARIABLES
    tasks,          \* WorkflowManager.tasks: the Map's values in insertion order
    currentStage,   \* WorkflowManager.state.currentStage
    hasToolExecutor,\* whether a ToolExecutor was passed to the constructor
    op,             \* the public method that is executing, or "idle"
    pc,             \* the statement that method is at
    cur,            \* the task of the running loop (index into tasks)
    approved,       \* local approved of devReviewFeedbackLoop
    skip,           \* skipCommit / skipApprovalAndCommit of the running call
    runLen,         \* tasks.length of the array orchestrateWorkflow iterates
    inflight,       \* remote calls issued and not yet settled: <<role, task>>
    thrown,         \* the error the running method rejected with
    analyzeCalls,   \* model.analyze calls made by the agent call in flight
    contexts,       \* AgentContextManager.contexts, keyed by the agent
    metrics,        \* WorkflowTokenTracker.metrics (token counts)
    devCalls,       \* per task: developer calls issued so far
    topCalls,       \* public calls made so far
    archCalls,      \* architecture designs requested so far
    committed,      \* tasks the git_commit tool has committed successfully
    iterations,     \* WorkflowManager.state.iterations (component -> list)
    approvalHistory,\* WorkflowManager.state.approvalHistory
    runCalls        \* agent calls issued by the running public call

wmVars == <<tasks, currentStage, hasToolExecutor, op, pc, cur, approved, skip,
            runLen, inflight, thrown, analyzeCalls, contexts, metrics, devCalls,
            topCalls, archCalls, committed, iterations, approvalHistory,
            runCalls>>

\* Consensus Builder: one call of ConsensusBuilder.buildConsensus
VARIABLES
    c_responses,    \* the argument responses
    c_pc,           \* "idle", "called", "returned", "threw"
    c_groups,       \* local groupedFindings: the Map's entries in insertion order
    c_report,       \* the ConsensusReport returned
    c_error         \* the error thrown

consensusVars == <<c_responses, c_pc, c_groups, c_report, c_error>>

vars == <<wmVars, retryVars, consensusVars>>

(***************************************************************************)
(* Retry Orchestrator (Orchestrator.executeWithRetry).                     *)
(***************************************************************************)
\* config?.x || dflt : 0 and undefined (modelled as 0) give the default
OrDefault(x, dflt) == IF x = 0 THEN dflt ELSE x

\* Math.pow(2, n)
RECURSIVE Pow2(_)
Pow2(n) == IF n <= 0 THEN 1 ELSE 2 * Pow2(n - 1)

calculateBackoffLinear(backoffMs, attempt) == backoffMs * attempt

\* Orchestrator.calculateBackoff
calculateBackoff(backoffMs, attempt) == backoffMs * Pow2(attempt - 1)

\* executeWithRetry: if (!isRetryable || attempt === this.maxRetries) throw
ShouldRethrowOffByOne(retryable, attempt, maxRetries) ==
    ~retryable \/ attempt >= maxRetries - 1

ShouldRethrow(retryable, attempt, maxRetries) ==
    ~retryable \/ attempt = maxRetries

\* new Orchestrator(model, toolExecutor, config)
OrchestratorConstructed(maxRetriesCfg, backoffMsCfg) ==
    /\ r_maxRetries = OrDefault(maxRetriesCfg, DefaultMaxRetries)
    /\ r_backoffMs = OrDefault(backoffMsCfg, DefaultBackoffMs)
    /\ r_pc = "idle"
    /\ r_attempt = 0
    /\ r_lastError = NoError
    /\ r_thrown = NoError
    /\ r_calls = 0
    /\ r_errors = <<>>
    /\ r_delays = <<>>
    /\ a_pc = "idle"
    /\ a_models = <<>>
    /\ a_pending = {}
    /\ a_results = <<>>
    /\ a_order = <<>>
    /\ a_builderCalls = 0

\* executeSimple -> executeWithRetry up to the first await of model.analyze
ExecuteWithRetry ==
    /\ r_pc \in {"idle", "returned", "threw"}
    /\ r_pc' = "calling"
    /\ r_attempt' = 1
    /\ r_lastError' = NoError
    /\ r_thrown' = NoError
    /\ r_calls' = 1
    /\ r_errors' = <<>>
    /\ r_delays' = <<>>
    /\ UNCHANGED <<r_maxRetries, r_backoffMs>>
    /\ UNCHANGED <<wmVars, consensusVars, advancedVars>>

\* model.analyze resolves: return await this.model.analyze(request)
AnalyzeResolves ==
    /\ r_pc = "calling"
    /\ r_pc' = "returned"
    /\ UNCHANGED <<r_maxRetries, r_backoffMs, r_attempt, r_lastError,
                   r_thrown, r_calls, r_errors, r_delays>>
    /\ UNCHANGED <<wmVars, consensusVars, advancedVars>>

\* model.analyze rejects with error e: the catch block of executeWithRetry
AnalyzeRejects(e) ==
    /\ r_pc = "calling"
    /\ r_lastError' = e
    /\ r_errors' = Append(r_errors, e)
    /\ IF ShouldRethrow(isRetryableError(e), r_attempt, r_maxRetries)
          THEN /\ r_pc' = "threw"
               /\ r_thrown' = e
               /\ UNCHANGED r_delays
          ELSE /\ r_pc' = "sleeping"
               /\ r_delays' = Append(r_delays, calculateBackoff(r_backoffMs, r_attempt))
               /\ UNCHANGED r_thrown
    /\ UNCHANGED <<r_maxRetries, r_backoffMs, r_attempt, r_calls>>
    /\ UNCHANGED <<wmVars, consensusVars, advancedVars>>

\* the timer of sleep fires: attempt++, loop test, next model.analyze call
SleepElapses ==
    /\ r_pc = "sleeping"
    /\ r_attempt' = r_attempt + 1
    /\ IF r_attempt + 1 <= r_maxRetries
          THEN /\ r_pc' = "calling"
               /\ r_calls' = r_calls + 1
               /\ UNCHANGED r_thrown
          ELSE /\ r_pc' = "threw"
               /\ r_thrown' = r_lastError
               /\ UNCHANGED r_calls
    /\ UNCHANGED <<r_maxRetries, r_backoffMs, r_lastError, r_errors, r_delays>>
    /\ UNCHANGED <<wmVars, consensusVars, advancedVars>>

RetryNext ==
    \/ ExecuteWithRetry
    \/ AnalyzeResolves
    \/ \E e \in Errors : AnalyzeRejects(e)
    \/ SleepElapses

(***************************************************************************)
(* Workflow Manager (WorkflowManager).                                     *)
(***************************************************************************)
\* errors a model adapter throws from analyze (ClaudeAdapter: 429 and 401)
AgentErrors == {[cls |-> "ModelError", msg |-> Msg429],
                [cls |-> "ModelError", msg |-> MsgAuth]}

Decisions == {"approve", "reject"}

Roles == {"architect", "developer", "reviewer"}

\* response.metadata?.tokensUsed?.total || 0 of a response of the role's agent
ResponseTokens(role) ==
    CASE role = "architect" -> 20
      [] role = "developer" -> 100
      [] role = "reviewer" -> 50

\* an agent id without an entry in AgentContextManager.contexts
NoContext == [exists |-> FALSE, conversationHistory |-> 0, currentTask |-> 0]

\* AgentContextManager.createContext
createContext(ctxs, agent) ==
    [ctxs EXCEPT ![agent] =
        [exists |-> TRUE, conversationHistory |-> 0, currentTask |-> 0]]

clearContextHistoryOnly(ctxs, agent) ==
    IF ctxs[agent].exists
        THEN [ctxs EXCEPT ![agent].conversationHistory = 0]
        ELSE ctxs

\* AgentContextManager.clearContext
clearContext(ctxs, agent) ==
    IF ctxs[agent].exists
        THEN [ctxs EXCEPT ![agent].conversationHistory = 0,
                          ![agent].currentTask = 0]
        ELSE ctxs

\* AgentContextManager.addMessage (the history is modelled by its length)
addMessage(ctxs, agent) ==
    IF ctxs[agent].exists
        THEN [ctxs EXCEPT ![agent].conversationHistory = @ + 1]
        ELSE ctxs

\* AgentContextManager.setCurrentTask
setCurrentTask(ctxs, agent, t) ==
    IF ctxs[agent].exists
        THEN [ctxs EXCEPT ![agent].currentTask = t]
        ELSE ctxs

\* WorkflowManager.architectAssignTask
architectAssignTask(ctxs, t) ==
    addMessage(setCurrentTask(createContext(ctxs, "architect"), "architect", t),
               "architect")

\* WorkflowManager.architectApproveTask
architectApproveTask(ctxs) ==
    clearContext(addMessage(ctxs, "architect"), "architect")

\* WorkflowManager.notifyArchitectOfCompletion
notifyArchitectOfCompletion(ctxs) ==
    clearContext(addMessage(createContext(ctxs, "architect"), "architect"),
                 "architect")

\* array.reduce((a, b) => a + b, 0)
RECURSIVE SumSeq(_)
SumSeq(q) == IF q = <<>> THEN 0 ELSE q[1] + SumSeq(Tail(q))

\* the TaskTokenUsage recordDevelopment / recordReview create for a new task
ZeroUsage == [architecture |-> 0, development |-> <<>>, review |-> <<>>, total |-> 0]

\* this.metrics.byTask.get(task.id), or the fresh entry when absent
TaskMetrics(m, t) == IF t \in DOMAIN m.byTask THEN m.byTask[t] ELSE ZeroUsage

\* WorkflowTokenTracker.updateTaskTotal: the total of a byTask entry
updateTaskTotal(tm) ==
    tm.architecture + SumSeq(tm.development) + SumSeq(tm.review)

\* WorkflowTokenTracker.recordArchitecture
recordArchitecture(m, role, tokens) ==
    [m EXCEPT !.byPhase.architecture = @ + tokens,
              !.byPhase.total = @ + tokens,
              !.byAgent[role] = @ + tokens]

\* WorkflowTokenTracker.recordDevelopment: the metrics it leaves
recordDevelopment(m, t, role, tokens) ==
    LET pushed == [TaskMetrics(m, t) EXCEPT !.development = Append(@, tokens)]
        entry == [pushed EXCEPT !.total = updateTaskTotal(pushed)]
    IN  [m EXCEPT !.byTask = (t :> entry) @@ @,
                  !.byPhase.development = @ + tokens,
                  !.byPhase.total = @ + tokens,
                  !.byAgent[role] = @ + tokens]

\* WorkflowTokenTracker.recordReview: the metrics it leaves
recordReview(m, t, role, tokens) ==
    LET pushed == [TaskMetrics(m, t) EXCEPT !.review = Append(@, tokens)]
        entry == [pushed EXCEPT !.total = updateTaskTotal(pushed)]
    IN  [m EXCEPT !.byTask = (t :> entry) @@ @,
                  !.byPhase.review = @ + tokens,
                  !.byPhase.total = @ + tokens,
                  !.byAgent[role] = @ + tokens]

\* the task createTasksFromArchitecture builds for component index
NewTask(arch, index) ==
    [arch |-> arch,
     priority |-> index + 1,
     status |-> "pending",
     iterationCount |-> 0,
     maxIterations |-> DefaultMaxIterations,
     reviewHistory |-> <<>>,
     currentReview |-> "none",
     implementation |-> FALSE,
     tokenUsage |-> ZeroUsage]

\* WorkflowManager.createTasksFromArchitecture: this.tasks.set for each component
createTasksFromArchitecture(ts, arch) ==
    ts \o [i \in 1..NumComponents |-> NewTask(arch, i - 1)]

\* devReviewFeedbackLoop: while (!approved && task.iterationCount < task.maxIterations)
LoopConditionInclusive(appr, task) ==
    ~appr /\ task.iterationCount <= task.maxIterations

LoopCondition(appr, task) ==
    ~appr /\ task.iterationCount < task.maxIterations

\* devReviewFeedbackLoop: task.iterationCount++ on reject
RejectIteration(n) == n + 1

\* orchestrateWorkflow / executeTaskWithReviewLoop: if (task.status === 'approved')
IsApprovedNotPending(task) == task.status # "pending"

IsApproved(task) == task.status = "approved"

\* const devResult = await this.developTask(task): the loop is suspended
AwaitDeveloperMissing == "developed"

AwaitDeveloper == "dev_call"

\* reviewTask: decision = hasCriticalIssues ? 'reject' : 'approve'
ReviewDecision(hasCriticalIssues) ==
    IF hasCriticalIssues THEN "reject" ELSE "approve"

\* no developer or reviewer call issued
NoCalls == [developer |-> 0, reviewer |-> 0]

WMInit ==
    /\ tasks = <<>>
    /\ currentStage = "architecture"
    /\ hasToolExecutor \in BOOLEAN
    /\ op = "idle"
    /\ pc = "idle"
    /\ cur = 0
    /\ approved = FALSE
    /\ skip = FALSE
    /\ runLen = 0
    /\ inflight = {}
    /\ thrown = NoError
    /\ analyzeCalls = 0
    /\ contexts = [a \in Roles |-> NoContext]
    /\ metrics = [byAgent |-> [a \in Roles |-> 0],
                  byTask |-> <<>>,
                  byPhase |-> [architecture |-> 0, development |-> 0,
                               review |-> 0, total |-> 0]]
    /\ devCalls = <<>>
    /\ topCalls = 0
    /\ archCalls = 0
    /\ committed = {}
    /\ iterations = <<>>
    /\ approvalHistory = <<>>
    /\ runCalls = NoCalls

\* no report built and no error thrown
NoReport == [findings |-> <<>>, modelsUsed |-> <<>>, disagreementHotspots |-> <<>>]

NoConsensusError == [cls |-> "none", code |-> "none"]

\* buildConsensus has not been called
ConsensusIdle ==
    /\ c_responses = <<>>
    /\ c_pc = "idle"
    /\ c_groups = <<>>
    /\ c_report = NoReport
    /\ c_error = NoConsensusError

\* a WorkflowManager, next to an Orchestrator built without a config
Init == WMInit /\ OrchestratorConstructed(0, 0) /\ ConsensusIdle

\* an Orchestrator built with any config, next to an unused WorkflowManager
RetryInit ==
    /\ WMInit
    /\ hasToolExecutor
    /\ \E m \in 0..MaxRetriesCfg, b \in {0, 100} : OrchestratorConstructed(m, b)
    /\ ConsensusIdle

----
\* what a public call counts for in topCalls
CallWeight(name) == IF name = "orchestrateWorkflow" THEN 2 ELSE 1

\* a public call starts: common bookkeeping
BeginCall(name) ==
    /\ op = "idle"
    /\ topCalls + CallWeight(name) <= MaxTopCalls
    /\ topCalls' = topCalls + CallWeight(name)
    /\ op' = name
    /\ runCalls' = NoCalls
    /\ UNCHANGED thrown

\* startArchitecture up to await this.architectAgent.performAnalysis
CallStartArchitecture ==
    /\ BeginCall("startArchitecture")
    /\ archCalls < MaxArchCalls
    /\ archCalls' = archCalls + 1
    /\ pc' = "arch_call"
    /\ inflight' = inflight \cup {<<"architect", 0>>}
    /\ analyzeCalls' = 1
    /\ UNCHANGED <<tasks, currentStage, hasToolExecutor, cur, approved, skip,
                   runLen, devCalls>>
    /\ contexts' = createContext(contexts, "architect")
    /\ UNCHANGED metrics
    /\ UNCHANGED <<retryVars, consensusVars>>
    /\ UNCHANGED <<iterations, approvalHistory>>
    /\ UNCHANGED committed

\* orchestrateWorkflow up to the await inside its startArchitecture call
CallOrchestrateWorkflow(skipCommit) ==
    /\ BeginCall("orchestrateWorkflow")
    /\ archCalls < MaxArchCalls
    /\ archCalls' = archCalls + 1
    /\ skip' = skipCommit
    /\ pc' = "arch_call"
    /\ inflight' = inflight \cup {<<"architect", 0>>}
    /\ analyzeCalls' = 1
    /\ UNCHANGED <<tasks, currentStage, hasToolExecutor, cur, approved,
                   runLen, devCalls>>
    /\ contexts' = createContext(contexts, "architect")
    /\ UNCHANGED metrics
    /\ UNCHANGED <<retryVars, consensusVars>>
    /\ UNCHANGED <<iterations, approvalHistory>>
    /\ UNCHANGED committed

\* devReviewFeedbackLoop(task): let approved = false
CallDevReviewFeedbackLoop(t) ==
    /\ BeginCall("devReviewFeedbackLoop")
    /\ t \in 1..Len(tasks)
    /\ cur' = t
    /\ approved' = FALSE
    /\ pc' = "loop"
    /\ UNCHANGED <<tasks, currentStage, hasToolExecutor, skip, runLen, inflight,
                   analyzeCalls, devCalls, archCalls>>
    /\ UNCHANGED <<contexts, metrics>>
    /\ UNCHANGED <<retryVars, consensusVars>>
    /\ UNCHANGED <<iterations, approvalHistory>>
    /\ UNCHANGED committed

\* executeTaskWithReviewLoop(task, skipApprovalAndCommit) entering the loop
CallExecuteTaskWithReviewLoop(t, skipApprovalAndCommit) ==
    /\ BeginCall("executeTaskWithReviewLoop")
    /\ t \in 1..Len(tasks)
    /\ cur' = t
    /\ skip' = skipApprovalAndCommit
    /\ approved' = FALSE
    /\ pc' = "loop"
    /\ UNCHANGED <<tasks, currentStage, hasToolExecutor, runLen, inflight,
                   analyzeCalls, devCalls, archCalls>>
    /\ UNCHANGED <<contexts, metrics>>
    /\ UNCHANGED <<retryVars, consensusVars>>
    /\ UNCHANGED <<iterations, approvalHistory>>
    /\ UNCHANGED committed

\* the architect's performAnalysis resolves: the rest of startArchitecture
ArchitectResolves ==
    /\ pc = "arch_call"
    /\ inflight' = inflight \ {<<"architect", 0>>}
    /\ tasks' = createTasksFromArchitecture(tasks, archCalls)
    /\ devCalls' = devCalls \o [i \in 1..NumComponents |-> 0]
    /\ IF op = "startArchitecture"
          THEN /\ pc' = "resolved"
               /\ UNCHANGED <<cur, runLen>>
          ELSE \* orchestrateWorkflow: const tasks = this.getTasks(); idx = 0
               /\ runLen' = Len(tasks')
               /\ cur' = 1
               /\ pc' = "for_head"
    /\ UNCHANGED <<currentStage, hasToolExecutor, op, approved, skip, thrown,
                   analyzeCalls, topCalls, archCalls>>
    /\ metrics' = recordArchitecture(metrics, "architect", ResponseTokens("architect"))
    /\ contexts' = clearContext(contexts, "architect")
    /\ UNCHANGED <<retryVars, consensusVars>>
    /\ UNCHANGED <<iterations, approvalHistory>>
    /\ UNCHANGED committed
    /\ UNCHANGED runCalls

\* an agent's performAnalysis rejects: no handler catches, the method rejects
AgentRejects(role, e) ==
    /\ \/ role = "architect" /\ pc = "arch_call"
       \/ role = "developer" /\ pc = "dev_call"
       \/ role = "reviewer" /\ pc = "rev_call"
    /\ inflight' = inflight \ {<<role, IF role = "architect" THEN 0 ELSE cur>>}
    /\ thrown' = e
    /\ pc' = "rejected"
    /\ UNCHANGED <<tasks, currentStage, hasToolExecutor, op, cur, approved, skip,
                   runLen, analyzeCalls, devCalls, topCalls, archCalls>>
    /\ UNCHANGED <<contexts, metrics>>
    /\ UNCHANGED <<retryVars, consensusVars>>
    /\ UNCHANGED <<iterations, approvalHistory>>
    /\ UNCHANGED committed
    /\ UNCHANGED runCalls

\* orchestrateWorkflow: for (idx < tasks.length), architectAssignTask,
\* entry of devReviewFeedbackLoop; after the loop currentStage = 'complete'
ForHead ==
    /\ pc = "for_head"
    /\ IF cur <= runLen
          THEN /\ contexts' = architectAssignTask(contexts, cur)
               /\ approved' = FALSE
               /\ pc' = "loop"
               /\ UNCHANGED currentStage
          ELSE /\ currentStage' = "complete"
               /\ pc' = "resolved"
               /\ UNCHANGED <<approved, contexts>>
    /\ UNCHANGED <<tasks, hasToolExecutor, op, cur, skip, runLen, inflight,
                   thrown, analyzeCalls, devCalls, topCalls, archCalls>>
    /\ UNCHANGED metrics
    /\ UNCHANGED <<retryVars, consensusVars>>
    /\ UNCHANGED <<iterations, approvalHistory>>
    /\ UNCHANGED committed
    /\ UNCHANGED runCalls

\* the while test of devReviewFeedbackLoop; when it holds, developTask up to
\* await this.developerAgent.performAnalysis
LoopTest ==
    /\ pc = "loop"
    /\ IF LoopCondition(approved, tasks[cur])
          THEN /\ contexts' = setCurrentTask(createContext(contexts, "developer"),
                                              "developer", cur)
               /\ pc' = AwaitDeveloper
               /\ inflight' = inflight \cup {<<"developer", cur>>}
               /\ analyzeCalls' = 1
               /\ devCalls' = [devCalls EXCEPT ![cur] = @ + 1]
               /\ runCalls' = [runCalls EXCEPT !.developer = @ + 1]
          ELSE /\ pc' = "loop_exit"
               /\ UNCHANGED <<inflight, analyzeCalls, devCalls, contexts, runCalls>>
    /\ UNCHANGED <<tasks, currentStage, hasToolExecutor, op, cur, approved, skip,
                   runLen, thrown, topCalls, archCalls>>
    /\ UNCHANGED metrics
    /\ UNCHANGED <<retryVars, consensusVars>>
    /\ UNCHANGED <<iterations, approvalHistory>>
    /\ UNCHANGED committed

developedTaskInReview(task, tokensUsed, total) ==
    [task EXCEPT !.implementation = TRUE,
                 !.status = "in_review",
                 !.tokenUsage.development =
                     Append(Append(@, tokensUsed), tokensUsed),
                 !.tokenUsage.total = total]

\* devReviewFeedbackLoop, "Update task with implementation": the task after
\* the developer returned
developedTask(task, tokensUsed, total) ==
    [task EXCEPT !.implementation = TRUE,
                 !.tokenUsage.development =
                     Append(Append(@, tokensUsed), tokensUsed),
                 !.tokenUsage.total = total]

\* the developer's performAnalysis resolves: task.implementation = ...
DeveloperResolves ==
    /\ pc = "dev_call"
    /\ <<"developer", cur>> \in inflight
    /\ inflight' = inflight \ {<<"developer", cur>>}
    /\ LET tokensUsed == ResponseTokens("developer")
           recorded == recordDevelopment(metrics, cur, "developer", tokensUsed)
       IN  /\ metrics' = recorded
           \* development.push at line 481 and again in recordDevelopment
           /\ tasks' = [tasks EXCEPT
                            ![cur] = developedTask(@, tokensUsed,
                                                   recorded.byTask[cur].total)]
    /\ contexts' = clearContext(contexts, "developer")
    /\ pc' = "developed"
    /\ UNCHANGED <<currentStage, hasToolExecutor, op, cur, approved, skip, runLen,
                   thrown, analyzeCalls, devCalls, topCalls, archCalls>>
    /\ UNCHANGED <<retryVars, consensusVars>>
    /\ UNCHANGED <<iterations, approvalHistory>>
    /\ UNCHANGED committed
    /\ UNCHANGED runCalls

\* reviewTask up to await this.reviewerAgent.performAnalysis
ReviewStart ==
    /\ pc = "developed"
    /\ inflight' = inflight \cup {<<"reviewer", cur>>}
    /\ analyzeCalls' = 1
    /\ pc' = "rev_call"
    /\ UNCHANGED <<tasks, currentStage, hasToolExecutor, op, cur, approved, skip,
                   runLen, thrown, devCalls, topCalls, archCalls>>
    /\ contexts' = setCurrentTask(createContext(contexts, "reviewer"), "reviewer", cur)
    /\ UNCHANGED metrics
    /\ UNCHANGED <<retryVars, consensusVars>>
    /\ UNCHANGED <<iterations, approvalHistory>>
    /\ UNCHANGED committed
    /\ runCalls' = [runCalls EXCEPT !.reviewer = @ + 1]

\* the reviewer's performAnalysis resolves: reviewHistory.push, currentReview
ReviewerResolves(hasCriticalIssues) ==
    /\ pc = "rev_call"
    /\ <<"reviewer", cur>> \in inflight
    /\ inflight' = inflight \ {<<"reviewer", cur>>}
    /\ LET decision == ReviewDecision(hasCriticalIssues)
           tokensUsed == ResponseTokens("reviewer")
           recorded == recordReview(metrics, cur, "reviewer", tokensUsed)
       IN  /\ metrics' = recorded
           \* review.push at line 497 and again in recordReview
           /\ tasks' = [tasks EXCEPT
                            ![cur].reviewHistory = Append(@, decision),
                            ![cur].currentReview = decision,
                            ![cur].tokenUsage.review =
                                Append(Append(@, tokensUsed), tokensUsed),
                            ![cur].tokenUsage.total = recorded.byTask[cur].total]
    /\ contexts' = clearContext(contexts, "reviewer")
    /\ pc' = "reviewed"
    /\ UNCHANGED <<currentStage, hasToolExecutor, op, cur, approved, skip, runLen,
                   thrown, analyzeCalls, devCalls, topCalls, archCalls>>
    /\ UNCHANGED <<retryVars, consensusVars>>
    /\ UNCHANGED <<iterations, approvalHistory>>
    /\ UNCHANGED committed
    /\ UNCHANGED runCalls

\* PHASE 3: DECISION of devReviewFeedbackLoop
Decide ==
    /\ pc = "reviewed"
    /\ IF tasks[cur].currentReview = "approve"
          THEN /\ approved' = TRUE
               /\ tasks' = [tasks EXCEPT ![cur].status = "approved"]
          ELSE /\ tasks' = [tasks EXCEPT
                               ![cur].status = "needs_revision",
                               ![cur].iterationCount = RejectIteration(@)]
               /\ UNCHANGED approved
    /\ pc' = "loop"
    /\ UNCHANGED <<currentStage, hasToolExecutor, op, cur, skip, runLen, inflight,
                   thrown, analyzeCalls, devCalls, topCalls, archCalls>>
    /\ UNCHANGED <<contexts, metrics>>
    /\ UNCHANGED <<retryVars, consensusVars>>
    /\ UNCHANGED <<iterations, approvalHistory>>
    /\ UNCHANGED committed
    /\ UNCHANGED runCalls

\* WorkflowGitManager.commitTask reaches await toolExecutor.executeTool
CommitCallsTool(task) == task.implementation /\ hasToolExecutor

\* devReviewFeedbackLoop returned to devReviewFeedbackLoop's caller
LoopExitDirect ==
    /\ pc = "loop_exit"
    /\ op = "devReviewFeedbackLoop"
    /\ pc' = "resolved"
    /\ UNCHANGED <<tasks, currentStage, hasToolExecutor, op, cur, approved, skip,
                   runLen, inflight, thrown, analyzeCalls, devCalls, topCalls,
                   archCalls>>
    /\ UNCHANGED <<contexts, metrics>>
    /\ UNCHANGED <<retryVars, consensusVars>>
    /\ UNCHANGED <<iterations, approvalHistory>>
    /\ UNCHANGED committed
    /\ UNCHANGED runCalls

\* executeTaskWithReviewLoop after the loop, up to the await in commitTask
LoopExitExecute ==
    /\ pc = "loop_exit"
    /\ op = "executeTaskWithReviewLoop"
    /\ IF IsApproved(tasks[cur])
          THEN IF skip
                  THEN /\ tasks' = [tasks EXCEPT ![cur].status = "completed"]
                       /\ pc' = "resolved"
                       /\ UNCHANGED <<inflight, contexts>>
                  ELSE \* getUserApprovalInteractive
                       IF tasks[cur].currentReview = "approve"
                          THEN IF CommitCallsTool(tasks[cur])
                                  THEN /\ pc' = "commit_call"
                                       /\ inflight' = inflight \cup {<<"git", cur>>}
                                       /\ UNCHANGED <<tasks, contexts>>
                                  ELSE /\ tasks' = [tasks EXCEPT ![cur].status = "completed"]
                                       /\ contexts' = notifyArchitectOfCompletion(contexts)
                                       /\ pc' = "resolved"
                                       /\ UNCHANGED inflight
                          ELSE /\ pc' = "resolved"
                               /\ UNCHANGED <<tasks, inflight, contexts>>
          ELSE /\ pc' = "resolved"
               /\ UNCHANGED <<tasks, inflight, contexts>>
    /\ UNCHANGED <<currentStage, hasToolExecutor, op, cur, approved, skip, runLen,
                   thrown, analyzeCalls, devCalls, topCalls, archCalls>>
    /\ UNCHANGED metrics
    /\ UNCHANGED <<retryVars, consensusVars>>
    /\ UNCHANGED <<iterations, approvalHistory>>
    /\ UNCHANGED committed
    /\ UNCHANGED runCalls

\* orchestrateWorkflow after the loop, up to the await in commitTask or idx++
LoopExitOrchestrate ==
    /\ pc = "loop_exit"
    /\ op = "orchestrateWorkflow"
    /\ IF IsApproved(tasks[cur])
          THEN /\ tasks' = [tasks EXCEPT ![cur].status = "completed"]
               /\ contexts' = architectApproveTask(contexts)
               /\ IF ~skip /\ CommitCallsTool(tasks[cur])
                     THEN /\ pc' = "commit_call"
                          /\ inflight' = inflight \cup {<<"git", cur>>}
                          /\ UNCHANGED cur
                     ELSE /\ pc' = "for_head"
                          /\ cur' = cur + 1
                          /\ UNCHANGED inflight
          ELSE /\ tasks' = [tasks EXCEPT ![cur].status = "needs_revision"]
               /\ pc' = "for_head"
               /\ cur' = cur + 1
               /\ UNCHANGED <<inflight, contexts>>
    /\ UNCHANGED <<currentStage, hasToolExecutor, op, approved, skip, runLen,
                   thrown, analyzeCalls, devCalls, topCalls, archCalls>>
    /\ UNCHANGED metrics
    /\ UNCHANGED <<retryVars, consensusVars>>
    /\ UNCHANGED <<iterations, approvalHistory>>
    /\ UNCHANGED committed
    /\ UNCHANGED runCalls

\* executeTool('git_commit') settles (success, success=false or an exception,
\* all of which commitTask only logs); the caller continues
CommitSettles(outcome) ==
    /\ pc = "commit_call"
    /\ inflight' = inflight \ {<<"git", cur>>}
    /\ IF op = "executeTaskWithReviewLoop"
          THEN /\ tasks' = [tasks EXCEPT ![cur].status = "completed"]
               /\ contexts' = notifyArchitectOfCompletion(contexts)
               /\ pc' = "resolved"
               /\ UNCHANGED cur
          ELSE /\ pc' = "for_head"
               /\ cur' = cur + 1
               /\ UNCHANGED <<tasks, contexts>>
    /\ UNCHANGED <<currentStage, hasToolExecutor, op, approved, skip, runLen,
                   thrown, analyzeCalls, devCalls, topCalls, archCalls>>
    /\ UNCHANGED metrics
    /\ UNCHANGED <<retryVars, consensusVars>>
    /\ UNCHANGED <<iterations, approvalHistory>>
    /\ committed' = IF outcome = "ok" THEN committed \cup {cur} ELSE committed
    /\ UNCHANGED runCalls

\* the promise of the public method has settled and its caller continues
\* (the locals of the finished call are dead and are reset)
CallerContinues ==
    /\ pc \in {"resolved", "rejected"}
    /\ op' = "idle"
    /\ pc' = "idle"
    /\ cur' = 0
    /\ approved' = FALSE
    /\ skip' = FALSE
    /\ runLen' = 0
    /\ thrown' = NoError
    /\ analyzeCalls' = 0
    /\ UNCHANGED <<tasks, currentStage, hasToolExecutor, inflight, devCalls,
                   topCalls, archCalls>>
    /\ UNCHANGED <<contexts, metrics>>
    /\ UNCHANGED <<retryVars, consensusVars>>
    /\ UNCHANGED <<iterations, approvalHistory>>
    /\ UNCHANGED committed
    /\ runCalls' = NoCalls

Next ==
    \/ CallStartArchitecture
    \/ \E s \in BOOLEAN : CallOrchestrateWorkflow(s)
    \/ \E t \in 1..Len(tasks) : CallDevReviewFeedbackLoop(t)
    \/ \E t \in 1..Len(tasks), s \in BOOLEAN : CallExecuteTaskWithReviewLoop(t, s)
    \/ ArchitectResolves
    \/ \E role \in {"architect", "developer", "reviewer"}, e \in AgentErrors :
          AgentRejects(role, e)
    \/ ForHead
    \/ LoopTest
    \/ DeveloperResolves
    \/ ReviewStart
    \/ \E c \in BOOLEAN : ReviewerResolves(c)
    \/ Decide
    \/ LoopExitDirect
    \/ LoopExitExecute
    \/ LoopExitOrchestrate
    \/ \E o \in {"ok", "failed", "threw"} : CommitSettles(o)
    \/ CallerContinues

Spec == Init /\ [][Next]_vars

\* the Workflow Manager on a running event loop: a continuation that is ready
\* runs, and every remote call in flight settles (it returns or it throws)
FairSpec == Init /\ [][Next]_vars /\ WF_vars(Next)

RetrySpec == RetryInit /\ [][RetryNext]_vars

(***************************************************************************)
(* Consensus Builder (ConsensusBuilder.buildConsensus).                    *)
(* Confidences and scores are in hundredths (0.9 is 90); an average and a  *)
(* square root are taken to the whole hundredth.                           *)
(***************************************************************************)
\* findingsSimilar: substring(0, 20)
PrefixLen == 20

\* ConsensusBuildError: super('CONSENSUS_ERROR', message, details_info)
ConsensusBuildError == [cls |-> "ConsensusBuildError", code |-> "CONSENSUS_ERROR"]

\* models the agents of one merge are bound to
ModelNames == {"claude", "gpt"}

\* AgentFactory.createAgentsForAdvancedMode: architect, developer, reviewer
RoleOrder == <<"architect", "developer", "reviewer">>

FindingIds == {"id1", "id2"}

\* type and location of a finding
FindingPlaces == {[type |-> "logic", location |-> "a.ts:1"],
                  [type |-> "security", location |-> "b.ts:2"]}

\* "Timeout in retry loop of fetch"
DescLong ==
    <<"T", "i", "m", "e", "o", "u", "t", " ", "i", "n", " ", "r", "e", "t",
      "r", "y", " ", "l", "o", "o", "p", " ", "o", "f", " ", "f", "e", "t",
      "c", "h">>

\* "timeout in retry"
DescShort ==
    <<"t", "i", "m", "e", "o", "u", "t", " ", "i", "n", " ", "r", "e", "t",
      "r", "y">>

\* "no TIMEOUT in retry"
DescOther ==
    <<"n", "o", " ", "T", "I", "M", "E", "O", "U", "T", " ", "i", "n", " ",
      "r", "e", "t", "r", "y">>

Descriptions == {DescLong, DescShort, DescOther}

Confidences == {50, 90}

\* Finding
Findings ==
    {[id |-> i, type |-> p.type, location |-> p.location, description |-> d,
      confidence |-> c] :
        i \in FindingIds, p \in FindingPlaces, d \in Descriptions,
        c \in Confidences}

Min(a, b) == IF a < b THEN a ELSE b

Max(a, b) == IF a > b THEN a ELSE b

\* String.prototype.substring(0, n)
Substring0(str, n) == SubSeq(str, 1, Min(n, Len(str)))

\* the largest r with r * r <= x
ISqrt(x) == CHOOSE r \in 0..x : r * r <= x /\ (r + 1) * (r + 1) > x

\* ConsensusBuilder.collectAllFindings
RECURSIVE collectAllFindings(_)
collectAllFindings(responses) ==
    IF responses = <<>>
        THEN <<>>
        ELSE LET response == Head(responses)
             IN  [k \in 1..Len(response.findings) |->
                     [id |-> response.findings[k].id,
                      type |-> response.findings[k].type,
                      location |-> response.findings[k].location,
                      description |-> response.findings[k].description,
                      confidence |-> response.findings[k].confidence,
                      sourceModel |-> response.modelName]]
                 \o collectAllFindings(Tail(responses))

\* ConsensusBuilder.findingsSimilar
findingsSimilar(f1, f2) ==
    IF f1.location = f2.location /\ f1.type = f2.type
        THEN LET desc1 == ToLowerCase(f1.description)
                 desc2 == ToLowerCase(f2.description)
             IN  Includes(desc1, Substring0(desc2, PrefixLen))
                 \/ Includes(desc2, Substring0(desc1, PrefixLen))
        ELSE FALSE

PushToGroupReplacing(groups, g, finding) ==
    [groups EXCEPT ![g].members = <<finding>>]

\* groups.get(key)!.push(finding) / group.push(finding)
PushToGroup(groups, g, finding) ==
    [groups EXCEPT ![g].members = Append(@, finding)]

\* groupFindingsBySimilarity: the body of the loop over the findings
PlaceFinding(groups, finding) ==
    LET byId == {g \in 1..Len(groups) : groups[g].key = finding.id}
        bySimilarity == {g \in 1..Len(groups) :
                            findingsSimilar(finding, groups[g].members[1])}
        first(S) == CHOOSE g \in S : \A h \in S : g <= h
    IN  IF byId # {}
            THEN PushToGroup(groups, first(byId), finding)
            ELSE IF bySimilarity # {}
                THEN PushToGroup(groups, first(bySimilarity), finding)
                ELSE Append(groups, [key |-> finding.id, members |-> <<finding>>])

\* ConsensusBuilder.groupFindingsBySimilarity
RECURSIVE groupFindingsBySimilarity(_, _)
groupFindingsBySimilarity(findings, groups) ==
    IF findings = <<>>
        THEN groups
        ELSE groupFindingsBySimilarity(Tail(findings),
                                       PlaceFinding(groups, Head(findings)))

determineConsensusLevelOfSeveral(sourceCount, totalCount) ==
    IF sourceCount >= 2 /\ sourceCount * 100 = 100 * totalCount
        THEN "unanimous"
        ELSE IF sourceCount >= 2 /\ sourceCount * 100 >= 66 * totalCount
            THEN "majority"
            ELSE "minority"

\* ConsensusBuilder.determineConsensusLevel
determineConsensusLevel(sourceCount, totalCount) ==
    IF sourceCount * 100 = 100 * totalCount
        THEN "unanimous"
        ELSE IF sourceCount * 100 >= 66 * totalCount
            THEN "majority"
            ELSE "minority"

\* group.reduce((sum, f) => sum + f.confidence, 0)
RECURSIVE SumConfidence(_)
SumConfidence(group) ==
    IF group = <<>> THEN 0 ELSE Head(group).confidence + SumConfidence(Tail(group))

\* confidences.reduce((sum, conf) => sum + Math.pow(conf - mean, 2), 0),
\* times the square of the group's length
RECURSIVE SumSquaredDeviation(_, _, _)
SumSquaredDeviation(group, total, n) ==
    IF group = <<>>
        THEN 0
        ELSE (n * Head(group).confidence - total) * (n * Head(group).confidence - total)
             + SumSquaredDeviation(Tail(group), total, n)

\* ConsensusBuilder.calculateAgreementScore
calculateAgreementScore(group) ==
    IF Len(group) = 1
        THEN group[1].confidence
        ELSE LET n == Len(group)
                 \* variance * n^3, and 2 * stdDev
                 scaled == SumSquaredDeviation(group, SumConfidence(group), n)
                 twiceStdDev == ISqrt((4 * scaled) \div (n * n * n))
             IN  Max(0, 100 - twiceStdDev)

\* Array.from(new Set(group.map(f => f.sourceModel)))
RECURSIVE SourcesOf(_, _)
SourcesOf(group, seen) ==
    IF group = <<>>
        THEN seen
        ELSE SourcesOf(Tail(group),
                       IF \E k \in 1..Len(seen) : seen[k] = Head(group).sourceModel
                           THEN seen
                           ELSE Append(seen, Head(group).sourceModel))

\* for (const finding of group) confidences[finding.sourceModel] = ...
ConfidencesOf(group) ==
    LET models == {group[k].sourceModel : k \in 1..Len(group)}
        last(m) == CHOOSE k \in 1..Len(group) :
                       /\ group[k].sourceModel = m
                       /\ \A j \in 1..Len(group) : group[j].sourceModel = m => j <= k
    IN  [m \in models |-> group[last(m)].confidence]

\* ConsensusBuilder.mergeFindingGroup
mergeFindingGroup(group) ==
    LET baseFinding == group[1]
        sources == SourcesOf(group, <<>>)
    IN  [id |-> baseFinding.id,
         type |-> baseFinding.type,
         location |-> baseFinding.location,
         description |-> baseFinding.description,
         sourceModel |-> baseFinding.sourceModel,
         confidence |-> SumConfidence(group) \div Len(group),
         sources |-> sources,
         confidences |-> ConfidencesOf(group),
         consensusLevel |-> determineConsensusLevel(Len(sources), Len(group)),
         agreementScore |-> calculateAgreementScore(group)]

ResponsesMissingOffByOne(responses) == Len(responses) < 0

\* buildConsensus: if (responses.length === 0)
ResponsesMissing(responses) == Len(responses) = 0

\* buildConsensus throws ConsensusBuildError
BuildConsensusThrows ==
    /\ c_pc = "called"
    /\ ResponsesMissing(c_responses)
    /\ c_pc' = "threw"
    /\ c_error' = ConsensusBuildError
    /\ UNCHANGED <<c_responses, c_groups, c_report>>
    /\ UNCHANGED <<wmVars, retryVars>>

\* buildConsensus: groupedFindings for the responses
groupedFindingsOf(responses) ==
    groupFindingsBySimilarity(collectAllFindings(responses), <<>>)

\* calculateConsensusMetrics: disagreementHotspots, the minority findings
\* without sources, confidences, consensusLevel and agreementScore
disagreementHotspotsOf(mergedFindings) ==
    LET minority(f) == f.consensusLevel = "minority"
        hot == SelectSeq(mergedFindings, minority)
    IN  [k \in 1..Len(hot) |->
            [id |-> hot[k].id,
             type |-> hot[k].type,
             location |-> hot[k].location,
             description |-> hot[k].description,
             sourceModel |-> hot[k].sourceModel,
             confidence |-> hot[k].confidence]]

\* buildConsensus: the report for a non-empty list of responses
reportOf(responses) ==
    LET groupedFindings == groupedFindingsOf(responses)
        mergedFindings == [g \in 1..Len(groupedFindings) |->
                              mergeFindingGroup(groupedFindings[g].members)]
    IN  [findings |-> mergedFindings,
         modelsUsed |-> [r \in 1..Len(responses) |-> responses[r].modelName],
         disagreementHotspots |-> disagreementHotspotsOf(mergedFindings)]

\* buildConsensus returns the report
BuildConsensusReturns ==
    /\ c_pc = "called"
    /\ ~ResponsesMissing(c_responses)
    /\ c_groups' = groupedFindingsOf(c_responses)
    /\ c_report' = reportOf(c_responses)
    /\ c_pc' = "returned"
    /\ UNCHANGED <<c_responses, c_error>>
    /\ UNCHANGED <<wmVars, retryVars>>

ConsensusNext ==
    \/ BuildConsensusThrows
    \/ BuildConsensusReturns

\* sequences of at most n findings
FindingSeqs(n) == UNION {[1..k -> Findings] : k \in 0..n}

\* the ways to cut n findings into k consecutive runs
Cuts(n, k) ==
    {sizes \in [1..k -> 0..n] :
        LET RECURSIVE Total(_)
            Total(i) == IF i = 0 THEN 0 ELSE sizes[i] + Total(i - 1)
        IN  Total(k) = n}

\* the responses that carry the findings fs cut by sizes, from the models
ResponsesOf(fs, sizes, models) ==
    LET RECURSIVE Before(_)
        Before(i) == IF i = 0 THEN 0 ELSE sizes[i] + Before(i - 1)
    IN  [i \in 1..Len(models) |->
            [modelName |-> models[i],
             role |-> RoleOrder[i],
             findings |-> SubSeq(fs, Before(i - 1) + 1, Before(i))]]

\* buildConsensus called with at most MaxResponses responses that hold at
\* most MaxFindings findings together
ConsensusInit ==
    /\ WMInit
    /\ hasToolExecutor
    /\ OrchestratorConstructed(0, 0)
    /\ \E k \in 0..MaxResponses :
          \E fs \in FindingSeqs(IF k = 0 THEN 0 ELSE MaxFindings),
             models \in [1..k -> ModelNames] :
              \E sizes \in Cuts(Len(fs), k) :
                  c_responses = ResponsesOf(fs, sizes, models)
    /\ c_pc = "called"
    /\ c_groups = <<>>
    /\ c_report = NoReport
    /\ c_error = NoConsensusError

ConsensusSpec == ConsensusInit /\ [][ConsensusNext]_vars

(***************************************************************************)
(* Token Tracker (WorkflowTokenTracker) used on its own: a caller builds   *)
(* tasks and records the tokens of their phases.                           *)
(***************************************************************************)
\* token counts a caller records
TokenCounts == {50, 100}

\* task.tokenUsage.architecture of a task handed to the tracker
ArchitectureTokens == {0, 20}

\* recordDevelopment / recordReview calls made so far
RecordsMade ==
    LET RECURSIVE Entries(_)
        Entries(t) ==
            IF t = 0
                THEN 0
                ELSE Len(tasks[t].tokenUsage.development)
                     + Len(tasks[t].tokenUsage.review) + Entries(t - 1)
    IN  Entries(Len(tasks))

\* what the tracker's caller leaves alone
trackerFrame == <<currentStage, hasToolExecutor, op, pc, cur, approved, skip,
                  runLen, inflight, thrown, analyzeCalls, contexts, topCalls,
                  archCalls, committed, iterations, approvalHistory, runCalls>>

\* a caller builds a Task whose architecture tokens are a
TaskCreated(a) ==
    /\ Len(tasks) < MaxTrackedTasks
    /\ tasks' = Append(tasks, [NewTask(0, Len(tasks)) EXCEPT
                                  !.tokenUsage.architecture = a])
    /\ devCalls' = Append(devCalls, 0)
    /\ UNCHANGED metrics
    /\ UNCHANGED trackerFrame
    /\ UNCHANGED <<retryVars, consensusVars>>

\* tokenTracker.recordDevelopment(task, 'developer', tokens)
RecordDevelopment(t, tokens) ==
    /\ RecordsMade < MaxRecords
    /\ LET recorded == recordDevelopment(metrics, t, "developer", tokens)
       IN  /\ metrics' = recorded
           /\ tasks' = [tasks EXCEPT
                            ![t].tokenUsage.development = Append(@, tokens),
                            ![t].tokenUsage.total = recorded.byTask[t].total]
    /\ UNCHANGED devCalls
    /\ UNCHANGED trackerFrame
    /\ UNCHANGED <<retryVars, consensusVars>>

\* tokenTracker.recordReview(task, 'reviewer', tokens)
RecordReview(t, tokens) ==
    /\ RecordsMade < MaxRecords
    /\ LET recorded == recordReview(metrics, t, "reviewer", tokens)
       IN  /\ metrics' = recorded
           /\ tasks' = [tasks EXCEPT
                            ![t].tokenUsage.review = Append(@, tokens),
                            ![t].tokenUsage.total = recorded.byTask[t].total]
    /\ UNCHANGED devCalls
    /\ UNCHANGED trackerFrame
    /\ UNCHANGED <<retryVars, consensusVars>>

TrackerNext ==
    \/ \E a \in ArchitectureTokens : TaskCreated(a)
    \/ \E t \in 1..Len(tasks), tokens \in TokenCounts : RecordDevelopment(t, tokens)
    \/ \E t \in 1..Len(tasks), tokens \in TokenCounts : RecordReview(t, tokens)

\* a WorkflowTokenTracker with no task recorded yet
TrackerInit == WMInit /\ hasToolExecutor /\ OrchestratorConstructed(0, 0) /\ ConsensusIdle

TrackerSpec == TrackerInit /\ [][TrackerNext]_vars

(***************************************************************************)
(* Consensus mode (Orchestrator.executeAdvanced): three agents analyse the *)
(* same component in parallel and their responses are merged.              *)
(***************************************************************************)
\* findings an agent of the consensus mode reports
AdvancedFindings == {f \in Findings : f.confidence = 50 /\ f.type = "logic"}

\* response.findings of one agent: no finding or one
AgentFindingSeqs == {<<>>} \cup {<<f>> : f \in AdvancedFindings}

PromiseAllResultsAsSettled(results, order) ==
    [i \in 1..Len(order) |-> results[order[i]]]

\* await Promise.all(agents.map(...)): the results in the order of the agents
PromiseAllResults(results, order) ==
    [i \in 1..Len(RoleOrder) |-> results[RoleOrder[i]]]

\* what executeAdvanced leaves alone
advancedFrame == <<r_maxRetries, r_backoffMs, r_pc, r_attempt, r_lastError,
                   r_thrown, r_calls, r_errors, r_delays, wmVars>>

\* executeAdvanced up to await Promise.all: the three performAnalysis calls
\* are issued by agents.map without an await between them
ExecuteAdvanced(models) ==
    /\ a_pc = "idle"
    /\ a_pc' = "awaiting"
    /\ a_models' = models
    /\ a_pending' = {RoleOrder[i] : i \in 1..Len(RoleOrder)}
    /\ UNCHANGED <<a_results, a_order, a_builderCalls>>
    /\ UNCHANGED advancedFrame
    /\ UNCHANGED consensusVars

\* the performAnalysis call of one agent resolves
AgentAnalysisResolves(role, findings) ==
    /\ role \in a_pending
    /\ a_pending' = a_pending \ {role}
    /\ a_order' = Append(a_order, role)
    /\ a_results' = (role :> [modelName |-> a_models[role], role |-> role,
                              findings |-> findings]) @@ a_results
    /\ UNCHANGED <<a_pc, a_models, a_builderCalls>>
    /\ UNCHANGED advancedFrame
    /\ UNCHANGED consensusVars

\* the performAnalysis call of one agent rejects: Promise.all rejects with
\* the first rejection and executeAdvanced throws
AgentAnalysisRejects(role) ==
    /\ role \in a_pending
    /\ a_pending' = a_pending \ {role}
    /\ a_order' = Append(a_order, role)
    /\ a_pc' = IF a_pc = "awaiting" THEN "threw" ELSE a_pc
    /\ UNCHANGED <<a_models, a_results, a_builderCalls>>
    /\ UNCHANGED advancedFrame
    /\ UNCHANGED consensusVars

\* Promise.all resolves: ConsensusBuilder.buildConsensus(responses), return
AllResolved ==
    /\ a_pc = "awaiting"
    /\ a_pending = {}
    /\ LET responses == PromiseAllResults(a_results, a_order)
       IN  /\ c_responses' = responses
           /\ c_groups' = groupedFindingsOf(responses)
           /\ c_report' = reportOf(responses)
    /\ c_pc' = "returned"
    /\ a_builderCalls' = a_builderCalls + 1
    /\ a_pc' = "returned"
    /\ UNCHANGED <<a_models, a_pending, a_results, a_order, c_error>>
    /\ UNCHANGED advancedFrame

AdvancedNext ==
    \/ \E models \in [{"architect", "developer", "reviewer"} -> ModelNames] :
          ExecuteAdvanced(models)
    \/ \E role \in Roles, findings \in AgentFindingSeqs :
          AgentAnalysisResolves(role, findings)
    \/ \E role \in Roles : AgentAnalysisRejects(role)
    \/ AllResolved

AdvancedSpec == Init /\ [][AdvancedNext]_vars

\* this.state.components: componentBreakdown of the architecture parsed last,
\* named by the tasks createTasksFromArchitecture made for it
StateComponents ==
    {i \in DOMAIN tasks : \A j \in DOMAIN tasks : tasks[j].arch <= tasks[i].arch}

\* this.state.iterations.get(component.id) || []
IterationsOf(component) ==
    IF component \in DOMAIN iterations THEN iterations[component] ELSE <<>>

\* WorkflowManager.isComplete
isComplete ==
    \A component \in StateComponents :
        \E k \in DOMAIN IterationsOf(component) :
            IterationsOf(component)[k].status = "approved"

\* the calls in flight that race against a timer: ToolExecutor.executeTool
\* wraps tool.execute in Promise.race with createTimeoutPromise; no caller of
\* model.analyze or agent.performAnalysis arms one
TimedCalls == {call \in inflight : call[1] = "git"}

(***************************************************************************)
(* Properties.                                                             *)
(***************************************************************************)
TaskIds == 1..Len(tasks)

AgentCallInFlight(role, t) == <<role, t>> \in inflight

Rejections(task) ==
    Cardinality({i \in 1..Len(task.reviewHistory) : task.reviewHistory[i] = "reject"})

HasApproval(task) ==
    \E i \in 1..Len(task.reviewHistory) : task.reviewHistory[i] = "approve"

Exhausted(task) == task.iterationCount = task.maxIterations

\* C1: for every task, in every reachable state, iterationCount is at most
\* maxIterations.
C1_IterationCountBounded ==
    \A t \in TaskIds : tasks[t].iterationCount <= tasks[t].maxIterations

\* a task whose third rejection brought iterationCount to maxIterations
C1_Witness ==
    \E t \in TaskIds :
        /\ tasks[t].iterationCount = tasks[t].maxIterations
        /\ Rejections(tasks[t]) = DefaultMaxIterations

\* C2: a task whose status is completed has a feedback with decision approve
\* in its reviewHistory.
C2_CompletedOnlyAfterApprove ==
    \A t \in TaskIds : tasks[t].status = "completed" => HasApproval(tasks[t])

\* a task completed by orchestrateWorkflow after one rejection and an approval
C2_Witness ==
    \E t \in TaskIds :
        /\ tasks[t].status = "completed"
        /\ tasks[t].reviewHistory = <<"reject", "approve">>
        /\ op = "orchestrateWorkflow"

\* C3: when a developer or reviewer call fails during orchestrateWorkflow, the
\* task is recorded as needs_revision and the run goes on with the next task;
\* orchestrateWorkflow itself does not fail.
C3_FailureBecomesTaskStatus ==
    [][(op = "orchestrateWorkflow" /\ pc \in {"dev_call", "rev_call"}) =>
          \/ pc' \in {"dev_call", "rev_call", "developed", "reviewed"}
          \/ /\ pc' = "for_head"
             /\ cur' = cur + 1
             /\ tasks'[cur].status = "needs_revision"]_vars

\* C4 as stated: an exhausted task is needs_revision and gets no further agent
\* call, and a task gets at most maxIterations development attempts in total.
C4_AtMostMaxIterationsAttempts ==
    \A t \in TaskIds :
        /\ Exhausted(tasks[t]) =>
              /\ tasks[t].status = "needs_revision"
              /\ ~AgentCallInFlight("developer", t)
              /\ ~AgentCallInFlight("reviewer", t)
        /\ devCalls[t] <= tasks[t].maxIterations

\* C4 amended: iterationCount counts exactly the rejections whose decision
\* has been applied; once a rejection
\* makes iterationCount reach maxIterations the task is needs_revision and no
\* later step changes it or issues a developer or reviewer call for it.
C4_ExhaustedTaskGetsNoFurtherAttempt ==
    /\ [](\A t \in TaskIds :
             /\ ~(pc = "reviewed" /\ cur = t) =>
                   Rejections(tasks[t]) = tasks[t].iterationCount
             /\ Exhausted(tasks[t]) =>
                   /\ tasks[t].status = "needs_revision"
                   /\ ~AgentCallInFlight("developer", t)
                   /\ ~AgentCallInFlight("reviewer", t))
    /\ [][\A t \in TaskIds :
             Exhausted(tasks[t]) =>
                 /\ tasks'[t] = tasks[t]
                 /\ devCalls'[t] = devCalls[t]]_vars

\* the loop invoked again on a task that an earlier orchestrateWorkflow
\* exhausted: it has left the loop and the developer was called three times
C4_Witness ==
    /\ op \in {"devReviewFeedbackLoop", "executeTaskWithReviewLoop"}
    /\ pc = "loop_exit"
    /\ currentStage = "complete"
    /\ Exhausted(tasks[cur])
    /\ devCalls[cur] = DefaultMaxIterations

StateMachineEdges ==
    {<<"pending", "in_development">>,
     <<"in_development", "in_review">>,
     <<"in_review", "needs_revision">>,
     <<"in_review", "approved">>,
     <<"needs_revision", "in_development">>,
     <<"approved", "completed">>}

\* C5: every status change follows an edge of the task state machine, a task
\* is in_development while its developer call is in flight and in_review while
\* its reviewer call is in flight.
C5_StatusFollowsStateMachine ==
    [][\A t \in TaskIds :
          /\ tasks'[t].status # tasks[t].status =>
                <<tasks[t].status, tasks'[t].status>> \in StateMachineEdges
          /\ <<"developer", t>> \in inflight' => tasks'[t].status = "in_development"
          /\ <<"reviewer", t>> \in inflight' => tasks'[t].status = "in_review"]_vars

\* C6: once a task is completed no later step changes its status or issues a
\* developer or reviewer call for it.
C6_CompletedIsTerminal ==
    [][\A t \in TaskIds :
          tasks[t].status = "completed" =>
              /\ tasks'[t].status = "completed"
              /\ devCalls'[t] = devCalls[t]
              /\ <<"developer", t>> \notin inflight'
              /\ <<"reviewer", t>> \notin inflight']_vars

\* C7: a retryable error of a developer or reviewer call made in the feedback
\* loop (cur names the loop's task) surfaces to the Workflow Manager only after
\* the call was attempted maxRetries times.
C7_RetryableErrorIsRetried ==
    (pc = "rejected" /\ cur >= 1 /\ isRetryableError(thrown)) =>
        analyzeCalls >= r_maxRetries

\* C8: within a task's loop the developer call has settled before the
\* reviewer call starts, the reviewer call has settled before the decision is
\* applied, the decision is applied before the next developer call starts, and
\* a developer and a reviewer call of one task are never in flight together.
C8_IterationIsSequential ==
    /\ [](\A t \in TaskIds :
             ~(AgentCallInFlight("developer", t) /\ AgentCallInFlight("reviewer", t)))
    /\ [][\A t \in TaskIds :
             /\ (<<"reviewer", t>> \in inflight' /\ <<"reviewer", t>> \notin inflight) =>
                   /\ <<"developer", t>> \notin inflight
                   /\ tasks[t].implementation
                   /\ pc = "developed"
             /\ (tasks'[t].status # tasks[t].status
                 \/ tasks'[t].iterationCount # tasks[t].iterationCount) =>
                   /\ <<"developer", t>> \notin inflight
                   /\ <<"reviewer", t>> \notin inflight
             /\ (<<"developer", t>> \in inflight' /\ <<"developer", t>> \notin inflight) =>
                   /\ <<"reviewer", t>> \notin inflight
                   /\ Rejections(tasks[t]) = tasks[t].iterationCount]_vars

\* the reviewer call of a task's second iteration is in flight
C8_Witness ==
    \E t \in TaskIds :
        /\ AgentCallInFlight("reviewer", t)
        /\ tasks[t].iterationCount = 1
        /\ devCalls[t] = 2

\* C9: during orchestrateWorkflow an agent call for a task is in flight only
\* when every task with a smaller priority number has already been processed
\* by this run (its index is below the loop index), and at most one agent call
\* is in flight at a time.
C9_AscendingPriorityOneAtATime ==
    /\ Cardinality({c \in inflight : c[1] \in {"developer", "reviewer"}}) <= 1
    /\ op = "orchestrateWorkflow" =>
          \A c \in inflight :
              c[1] \in {"developer", "reviewer"} =>
                  \A u \in TaskIds :
                      tasks[u].priority < tasks[c[2]].priority => u < cur

AllRetryable(errs) == \A i \in 1..Len(errs) : isRetryableError(errs[i])

\* C10: k retryable failures followed by a success, k < maxRetries, make
\* exactly k+1 analyze calls and the success is returned; when every attempt
\* fails with a retryable error exactly maxRetries calls are made and the
\* error of the last attempt is rethrown; never more than maxRetries calls.
C10_RetryCallCount ==
    /\ r_calls <= r_maxRetries
    /\ r_pc = "returned" =>
          /\ r_calls = Len(r_errors) + 1
          /\ Len(r_errors) < r_maxRetries
          /\ r_thrown = NoError
    /\ (r_pc = "threw" /\ AllRetryable(r_errors)) =>
          /\ Len(r_errors) = r_maxRetries
          /\ r_calls = r_maxRetries
          /\ r_thrown = r_errors[Len(r_errors)]
    /\ (r_pc \in {"calling", "sleeping"}) => AllRetryable(r_errors)

\* two rate-limit failures then a success with maxRetries = 3: three calls
C10_Witness ==
    /\ r_pc = "returned"
    /\ r_maxRetries = 3
    /\ r_errors = <<[cls |-> "ModelError", msg |-> MsgRateLimit],
                    [cls |-> "ModelError", msg |-> MsgRateLimit]>>
    /\ r_calls = 3

\* C11: when the first analyze call of an execution throws an error whose
\* message has no rate-limit / timeout / 429 marker (of any class, a ToolError
\* included), executeWithRetry has thrown that same error after exactly one
\* call and without any backoff wait.
C11_NonRetryablePropagatesAtOnce ==
    (Len(r_errors) >= 1 /\ ~HasRetryMarker(r_errors[1].msg)) =>
        /\ r_pc = "threw"
        /\ r_calls = 1
        /\ r_delays = <<>>
        /\ r_thrown = r_errors[1]

\* an authentication failure on the first call with three attempts allowed
C11_Witness ==
    /\ r_pc = "threw"
    /\ r_maxRetries = 3
    /\ r_errors = <<[cls |-> "ModelError", msg |-> MsgAuth]>>
    /\ r_calls = 1
    /\ r_thrown = [cls |-> "ModelError", msg |-> MsgAuth]

AllInputFindings == collectAllFindings(c_responses)

\* how often v occurs in seq
Count(seq, v) == Cardinality({k \in 1..Len(seq) : seq[k] = v})

\* how often v occurs as a member of the groups
RECURSIVE CountInGroups(_, _)
CountInGroups(groups, v) ==
    IF groups = <<>>
        THEN 0
        ELSE Count(Head(groups).members, v) + CountInGroups(Tail(groups), v)

SeqRange(seq) == {seq[k] : k \in 1..Len(seq)}

\* C14: buildConsensus called with an empty list of responses throws a
\* ConsensusBuildError, whose code is CONSENSUS_ERROR, and returns no report.
C14_EmptyInputThrowsConsensusError ==
    (c_pc \in {"returned", "threw"} /\ Len(c_responses) = 0) =>
        /\ c_pc = "threw"
        /\ c_error.code = "CONSENSUS_ERROR"
        /\ c_error = ConsensusBuildError
        /\ c_report = NoReport

C14_Witness ==
    /\ c_pc = "threw"
    /\ c_responses = <<>>
    /\ c_error.code = "CONSENSUS_ERROR"

\* the rearrangements of a sequence
PermsOf(seq) ==
    {[k \in 1..Len(seq) |-> seq[p[k]]] : p \in Permutations(1..Len(seq))}

\* the responses with the findings inside each response rearranged
RECURSIVE RearrangedFindings(_)
RearrangedFindings(responses) ==
    IF responses = <<>>
        THEN {<<>>}
        ELSE {<<[Head(responses) EXCEPT !.findings = fs]>> \o rest :
                 fs \in PermsOf(Head(responses).findings),
                 rest \in RearrangedFindings(Tail(responses))}

\* the responses rearranged, and the findings inside each of them
Rearranged(responses) ==
    UNION {PermsOf(rs) : rs \in RearrangedFindings(responses)}

\* what a group is apart from the display fields of its first member
GroupSummary(members) ==
    LET merged == mergeFindingGroup(members)
    IN  [members |-> SeqRange(members),
         size |-> Len(members),
         sources |-> SeqRange(merged.sources),
         confidence |-> merged.confidence,
         consensusLevel |-> merged.consensusLevel,
         agreementScore |-> merged.agreementScore]

Partition(groups) == {GroupSummary(groups[g].members) : g \in 1..Len(groups)}

\* C15: the merge is order-independent: rearranging the responses, and the
\* findings inside a response, gives the same groups, with the same members,
\* sources, merged confidence, consensusLevel and agreementScore.
C15_MergeIsOrderIndependent ==
    c_pc = "returned" =>
        \A rs \in Rearranged(c_responses) :
            Partition(groupFindingsBySimilarity(collectAllFindings(rs), <<>>))
                = Partition(c_groups)

\* C16: exact id match is authoritative: two input findings with the same id
\* are in the same group.
C16_SameIdSameGroup ==
    c_pc = "returned" =>
        \A g, h \in 1..Len(c_groups) :
            g # h =>
                \A a \in SeqRange(c_groups[g].members),
                   b \in SeqRange(c_groups[h].members) : a.id # b.id

\* C17: no finding is dropped and provenance is complete: every input finding
\* is a member of exactly one group and the groups hold nothing else, every
\* group yields exactly one MergedFinding, and the MergedFinding of a group
\* lists the source model of each member in sources and in confidences.
C17_NoFindingDroppedFullProvenance ==
    c_pc = "returned" =>
        /\ \A v \in SeqRange(AllInputFindings) :
              CountInGroups(c_groups, v) = Count(AllInputFindings, v)
        /\ \A g \in 1..Len(c_groups) :
              /\ c_groups[g].members # <<>>
              /\ SeqRange(c_groups[g].members) \subseteq SeqRange(AllInputFindings)
        /\ Len(c_report.findings) = Len(c_groups)
        /\ \A g \in 1..Len(c_groups) :
              \A v \in SeqRange(c_groups[g].members) :
                  /\ v.sourceModel \in SeqRange(c_report.findings[g].sources)
                  /\ v.sourceModel \in DOMAIN c_report.findings[g].confidences

\* three findings of two models merged into two groups, one of them with a
\* member from each model
C17_Witness ==
    /\ c_pc = "returned"
    /\ Len(AllInputFindings) = 3
    /\ Len(c_report.findings) = 2
    /\ \E g \in 1..Len(c_groups) :
          /\ Len(c_groups[g].members) = 2
          /\ Len(c_report.findings[g].sources) = 2

\* the first 20 characters of either description occur in the other
PrefixOverlap(d1, d2) ==
    \/ Includes(d1, Substring0(d2, PrefixLen))
    \/ Includes(d2, Substring0(d1, PrefixLen))

\* C18: when two agents report one finding each, of the same type and
\* location and with descriptions that overlap by prefix, the report has
\* exactly one MergedFinding and its sources has length 2, whatever models
\* the two agents are bound to.
C18_TwoAgentsMergeWithTwoSources ==
    (/\ c_pc = "returned"
     /\ Len(c_responses) = 2
     /\ c_responses[1].role # c_responses[2].role
     /\ Len(c_responses[1].findings) = 1
     /\ Len(c_responses[2].findings) = 1
     /\ c_responses[1].findings[1].type = c_responses[2].findings[1].type
     /\ c_responses[1].findings[1].location = c_responses[2].findings[1].location
     /\ PrefixOverlap(c_responses[1].findings[1].description,
                      c_responses[2].findings[1].description)) =>
        /\ Len(c_report.findings) = 1
        /\ Len(c_report.findings[1].sources) = 2

\* C19: merging a single response gives, for every finding of the response,
\* an agreementScore equal to the finding's own confidence.
C19_SingleResponseScoresOwnConfidence ==
    (c_pc = "returned" /\ Len(c_responses) = 1) =>
        \A g \in 1..Len(c_groups) :
            \A v \in SeqRange(c_groups[g].members) :
                c_report.findings[g].agreementScore = v.confidence

\* C20: when a call of startArchitecture has returned, getTasks holds exactly
\* one task per component of the architecture that call produced, with
\* priorities 1..N in component order, each pending with iterationCount 0.
C20_TasksOfLatestArchitecture ==
    (op = "startArchitecture" /\ pc = "resolved") =>
        /\ Len(tasks) = NumComponents
        /\ \A i \in 1..Len(tasks) :
              /\ tasks[i].arch = archCalls
              /\ tasks[i].priority = i
              /\ tasks[i].status = "pending"
              /\ tasks[i].iterationCount = 0

\* C21: once development or review tokens have been recorded for a task, the
\* task's tokenUsage.total is its architecture tokens plus the sum of the
\* recorded development tokens plus the sum of the recorded review tokens.
C21_TaskTotalIncludesArchitecture ==
    \A t \in 1..Len(tasks) :
        t \in DOMAIN metrics.byTask =>
            tasks[t].tokenUsage.total =
                tasks[t].tokenUsage.architecture
                + SumSeq(tasks[t].tokenUsage.development)
                + SumSeq(tasks[t].tokenUsage.review)

\* C27: task.tokenUsage.development holds one entry per developer call that
\* has returned for the task, task.tokenUsage.review one entry per reviewer
\* call that has returned, and tokenUsage.total is the task's architecture
\* tokens plus the sum of the entries of the task's own two lists.
C27_OneTokenEntryPerCall ==
    \A t \in TaskIds :
        /\ Len(tasks[t].tokenUsage.development) <= devCalls[t]
        /\ Len(tasks[t].tokenUsage.review) = Len(tasks[t].reviewHistory)
        /\ tasks[t].tokenUsage.total =
              tasks[t].tokenUsage.architecture
              + SumSeq(tasks[t].tokenUsage.development)
              + SumSeq(tasks[t].tokenUsage.review)

\* the models of the members of a group are pairwise distinct
DistinctModels(members) ==
    \A j, k \in 1..Len(members) :
        j # k => members[j].sourceModel # members[k].sourceModel

\* C30: consensusLevel is relative to the group: a group whose members come
\* from pairwise distinct models is unanimous, so a finding reported by only
\* one of two or more responses is unanimous, and disagreementHotspots is
\* non-empty only if one model contributes two or more findings to a group.
C30_ConsensusLevelIsRelativeToGroup ==
    c_pc = "returned" =>
        /\ \A g \in 1..Len(c_groups) :
              DistinctModels(c_groups[g].members) =>
                  c_report.findings[g].consensusLevel = "unanimous"
        /\ \A g \in 1..Len(c_groups) :
              (Len(c_responses) >= 2 /\ Len(c_groups[g].members) = 1) =>
                  c_report.findings[g].consensusLevel = "unanimous"
        /\ c_report.disagreementHotspots # <<>> =>
              \E g \in 1..Len(c_groups) : ~DistinctModels(c_groups[g].members)

\* two responses, a finding only one of them reports, labelled unanimous
C30_Witness ==
    /\ c_pc = "returned"
    /\ Len(c_responses) = 2
    /\ c_responses[1].modelName # c_responses[2].modelName
    /\ c_responses[1].findings # <<>>
    /\ c_responses[2].findings # <<>>
    /\ \E g \in 1..Len(c_groups) :
          /\ Len(c_groups[g].members) = 1
          /\ c_report.findings[g].consensusLevel = "unanimous"

\* the responses of the three agents, in the order of the agents
ResponsesByRole == [i \in 1..Len(RoleOrder) |-> a_results[RoleOrder[i]]]

\* the responses of the three agents, in the order their calls completed
ResponsesAsSettled == [i \in 1..Len(a_order) |-> a_results[a_order[i]]]

\* C22: in consensus mode the three agent calls are started together, the
\* Consensus Builder is invoked at most once, only after all three calls have
\* completed, and exactly once when executeAdvanced returns; the report is
\* determined by the three responses and not by the order they completed in.
C22_FanOutThenSingleFanIn ==
    /\ [](/\ (a_pc = "awaiting" /\ a_order = <<>>) => a_pending = Roles
          /\ a_builderCalls <= 1
          /\ a_builderCalls = 1 =>
                /\ a_pending = {}
                /\ DOMAIN a_results = Roles
          /\ a_pc = "returned" =>
                /\ a_builderCalls = 1
                /\ c_responses = ResponsesByRole
                /\ c_report = reportOf(ResponsesByRole)
          /\ a_pc = "threw" => a_builderCalls = 0)
    /\ [][a_builderCalls' # a_builderCalls =>
             (a_pending = {} /\ Len(a_order) = Cardinality(Roles))]_vars

\* the reviewer completed first and the architect last; the three findings
\* merge differently in that order than in the order of the agents
C22_Witness ==
    /\ a_pc = "returned"
    /\ a_order = <<"reviewer", "developer", "architect">>
    /\ a_builderCalls = 1
    /\ Len(c_report.findings) = 1
    /\ Len(reportOf(ResponsesAsSettled).findings) = 2

\* C23: every remote agent call in flight races against its own timer, so a
\* call that never returns is rejected when the configured duration elapses.
C23_EveryAgentCallRacesATimer ==
    \A call \in inflight : call[1] \in Roles => call \in TimedCalls

\* C24: a failed git commit of an approved task is not discarded: unless the
\* commit was skipped, whenever a task is left marked completed with no commit
\* call pending for it, its artifact has been committed.
C24_CompletedOnlyWhenCommitted ==
    [][\A t \in DOMAIN tasks :
          (/\ ~skip
           /\ tasks'[t].status = "completed"
           /\ <<"git", t>> \notin inflight'
           /\ (tasks[t].status # "completed" \/ <<"git", t>> \in inflight))
          => t \in committed']_vars

\* the agents whose turns make up an iteration of the feedback loop
TurnRoles == {"developer", "reviewer"}

\* C25: when a developer or reviewer call starts, that agent's context holds
\* no message and no task of an earlier turn (it is a fresh context on the
\* task of this turn), and when the call returns the agent's context is
\* cleared (empty history, no current task) in the same step, before any
\* other agent call starts.
C25_ContextIsolatedAroundEachTurn ==
    /\ [](\A call \in inflight :
             call[1] \in TurnRoles =>
                contexts[call[1]] = [exists |-> TRUE, conversationHistory |-> 0,
                                     currentTask |-> call[2]])
    /\ [][\A call \in inflight :
             (/\ call[1] \in TurnRoles
              /\ call \notin inflight'
              /\ pc' \in {"developed", "reviewed"})
             => /\ contexts'[call[1]].conversationHistory = 0
                /\ contexts'[call[1]].currentTask = 0
                /\ inflight' = {}]_vars

\* the reviewer's call on the second task, after a rejected iteration: the
\* developer's context was cleared and the reviewer's is on this task
C25_Witness ==
    /\ pc = "rev_call"
    /\ <<"reviewer", 2>> \in inflight
    /\ tasks[2].iterationCount >= 1
    /\ contexts["developer"] = [exists |-> TRUE, conversationHistory |-> 0,
                                currentTask |-> 0]
    /\ contexts["reviewer"].currentTask = 2

\* C26: approvals are recorded in the workflow state: a completed task has an
\* approved iteration in the state's iteration history of its component and
\* a record in approvalHistory, and once every task of the architecture is
\* completed isComplete() returns true.
C26_ApprovalsRecordedInState ==
    /\ \A t \in DOMAIN tasks :
          tasks[t].status = "completed" =>
             /\ \E k \in DOMAIN IterationsOf(t) :
                   IterationsOf(t)[k].status = "approved"
             /\ \E k \in DOMAIN approvalHistory : approvalHistory[k] = t
    /\ (/\ StateComponents # {}
        /\ \A t \in StateComponents : tasks[t].status = "completed")
       => isComplete

\* the fields of a task that record the outcome of its iterations
OutcomeFields(task) ==
    <<task.status, task.iterationCount, task.reviewHistory, task.currentReview>>

C29_OrchestrateTerminatesWithinBound ==
    /\ [](op = "orchestrateWorkflow" =>
            /\ runCalls.developer <= runLen * DefaultMaxIterations
            /\ runCalls.reviewer <= runLen * DefaultMaxIterations
            /\ runCalls.reviewer <= runCalls.developer)
    /\ [](op = "orchestrateWorkflow" /\ pc = "resolved" =>
            /\ currentStage = "complete"
            /\ runLen = Len(tasks)
            /\ \A t \in DOMAIN tasks :
                  tasks[t].status \in {"completed", "needs_revision"})
    /\ [][(pc' = "rejected" /\ pc # "rejected") =>
             pc \in {"arch_call", "dev_call", "rev_call"}]_vars
    /\ [](op = "orchestrateWorkflow" =>
            <>(op = "orchestrateWorkflow" /\ pc \in {"resolved", "rejected"}))

\* orchestrateWorkflow returned after the reviewer rejected every iteration
\* of every task: the bound on the calls is met exactly
C29_Witness ==
    /\ op = "orchestrateWorkflow"
    /\ pc = "resolved"
    /\ runLen = NumComponents
    /\ runCalls.developer = runLen * DefaultMaxIterations
    /\ runCalls.reviewer = runLen * DefaultMaxIterations
    /\ \A t \in DOMAIN tasks : tasks[t].status = "needs_revision"

====
